---- MODULE Spec2Model ----
(***************************************************************************)
(* Model of the http crate: the request parser (src/src/request.rs) and    *)
(* the response model and serializer (src/src/response.rs).                *)
(*                                                                         *)
(* A Rust String is a sequence of characters; a character is the string    *)
(* holding it, and the characters that cannot be written in a TLA+ string  *)
(* are named: "CR", "LF", "TAB", "NUL", and "U+00E9" (e with acute accent, *)
(* two bytes in UTF-8).                                                    *)
(***************************************************************************)
EXTENDS Integers, Sequences, FiniteSets, TLC

VARIABLES
    \* impl From<String> for HttpRequest: the input, the lines iterator and its
    \* position, the locals of the loop, where the call is, and what it returned
    raw, lines, i, parsed_method, parsed_version, parsed_resource,
    parsed_headers, parsed_msg_body, in_body, pc, req

parseVars == <<raw, lines, i, parsed_method, parsed_version, parsed_resource,
               parsed_headers, parsed_msg_body, in_body, pc, req>>

VARIABLES
    \* the caller of response.rs: the HttpResponse it holds, the order in which
    \* it inserted the headers of that response, the String the last conversion
    \* gave, the text send_response rendered, what the sink received, what
    \* write! gave send_response, what send_response returned, and where the
    \* caller is; call is the call of a status constructor that returned the
    \* response held, if one did
    resp, inserted, wire, response_string, sink, write_result, ret, rpc, call

respVars == <<resp, inserted, wire, response_string, sink, write_result, ret,
              rpc, call>>

vars == <<parseVars, respVars>>

----------------------------------------------------------------------------
(* Strings of the standard library, as the parser uses them.               *)

\* char::is_whitespace, on the characters of the model
IsWhitespace(c) == c \in {" ", "TAB", "CR", "LF"}

\* str::contains(pat), pat a string
Contains(s, pat) ==
    \E k \in 1..(Len(s) - Len(pat) + 1) : SubSeq(s, k, k + Len(pat) - 1) = pat

\* str::contains(c), c a character
ContainsChar(s, c) == \E k \in 1..Len(s) : s[k] = c

\* str::split(c): the pieces between the occurrences of c, in order
RECURSIVE Split(_, _)
Split(s, c) ==
    IF ~ContainsChar(s, c) THEN <<s>>
    ELSE LET p == CHOOSE k \in 1..Len(s) :
                      s[k] = c /\ \A j \in 1..(k - 1) : s[j] # c
         IN  <<SubSeq(s, 1, p - 1)>> \o Split(SubSeq(s, p + 1, Len(s)), c)

\* str::trim_start: leading whitespace removed
RECURSIVE trim_start(_)
trim_start(s) ==
    IF s # <<>> /\ IsWhitespace(Head(s)) THEN trim_start(Tail(s)) ELSE s

\* a trim_end_matches that removes one trailing c only
trim_end_once(s, c) ==
    IF s # <<>> /\ s[Len(s)] = c THEN SubSeq(s, 1, Len(s) - 1) ELSE s

\* str::trim_end_matches(c): every trailing c removed
RECURSIVE trim_end_matches(_, _)
trim_end_matches(s, c) ==
    IF s # <<>> /\ s[Len(s)] = c
    THEN trim_end_matches(SubSeq(s, 1, Len(s) - 1), c) ELSE s

\* str::split_whitespace: the maximal runs of non-whitespace, in order
RECURSIVE split_whitespace(_)
split_whitespace(s) ==
    LET t == trim_start(s)
    IN  IF t = <<>> THEN <<>>
        ELSE LET n == IF \E k \in 1..Len(t) : IsWhitespace(t[k])
                      THEN (CHOOSE k \in 1..Len(t) :
                               IsWhitespace(t[k])
                               /\ \A j \in 1..(k - 1) : ~IsWhitespace(t[j])) - 1
                      ELSE Len(t)
             IN  <<SubSeq(t, 1, n)>> \o split_whitespace(SubSeq(t, n + 1, Len(t)))

\* one line of str::lines: a line that ended in LF loses one CR before it
StripCR(s) ==
    IF s # <<>> /\ s[Len(s)] = "CR" THEN SubSeq(s, 1, Len(s) - 1) ELSE s

\* str::lines: split at LF; a CR before the LF goes with it; the text after
\* the last LF is a line only when it is not empty
str_lines(s) ==
    LET ps == Split(s, "LF")
        n  == Len(ps)
    IN  [k \in 1..(IF ps[n] = <<>> THEN n - 1 ELSE n) |->
            IF k < n THEN StripCR(ps[k]) ELSE ps[k]]

----------------------------------------------------------------------------
(* request.rs                                                              *)

\* impl From<&str> for Method
MethodFrom(s) ==
    CASE s = <<"G", "E", "T">>     -> "Get"
      [] s = <<"P", "O", "S", "T">>    -> "Post"
      [] s = <<"H", "E", "A", "D">>    -> "Head"
      [] s = <<"O", "P", "T", "I", "O", "N", "S">> -> "Options"
      [] s = <<"T", "R", "A", "C", "E">>   -> "Trace"
      [] s = <<"P", "A", "T", "C", "H">>   -> "Patch"
      [] OTHER -> "Uninitialized"

\* impl From<&str> for Version
VersionFrom(s) ==
    CASE s = <<"H", "T", "T", "P", "/", "1", ".", "1">> -> "V1_1"
      [] s = <<"H", "T", "T", "P", "/", "2", ".", "0">> -> "V2_0"
      [] OTHER -> "Uninitialized"

\* enum Resource: Path(String)
Path(s) == [Path |-> s]

\* Option<T>
None == [tag |-> "None"]
Some(v) == [tag |-> "Some", val |-> v]

\* Iterator::next on the words of a request line
WordAt(words, k) == IF k <= Len(words) THEN Some(words[k]) ELSE None

\* process_req_line: the three unwraps panic when a word is missing
process_req_line(s) ==
    LET words    == split_whitespace(s)
        method   == WordAt(words, 1)
        resource == WordAt(words, 2)
        version  == WordAt(words, 3)
    IN  IF None \in {method, resource, version}
        THEN [panicked |-> TRUE]
        ELSE [panicked |-> FALSE,
              method   |-> MethodFrom(method.val),
              resource |-> Path(resource.val),
              version  |-> VersionFrom(version.val)]

\* process_header_line: the first two items of the split at ':'
process_header_line(s) ==
    LET header_items == Split(s, ":")
        key   == header_items[1]
        value == IF Len(header_items) >= 2
                 THEN trim_start(header_items[2]) ELSE <<>>
    IN  <<key, value>>

\* HashMap::new and HashMap::insert
EmptyMap == <<>>
MapInsert(h, k, v) ==
    [x \in (DOMAIN h) \cup {k} |-> IF x = k THEN v ELSE h[x]]

----------------------------------------------------------------------------
(* The inputs of the parser.                                               *)

\* the line separators of the wire grammar
CRLF == <<"CR", "LF">>
LFOnly == <<"LF">>

\* request lines: the nine method tokens and two that are no method; the
\* three kinds of version token
RequestLines ==
    { <<"G", "E", "T", " ", "/", "a", " ", "H", "T", "T", "P", "/", "1", ".", "1">>,   \* GET /a HTTP/1.1
      <<"P", "O", "S", "T", " ", "/", "a", " ", "H", "T", "T", "P", "/", "1", ".", "1">>,   \* POST /a HTTP/1.1
      <<"H", "E", "A", "D", " ", "/", "a", " ", "H", "T", "T", "P", "/", "1", ".", "1">>,   \* HEAD /a HTTP/1.1
      <<"P", "U", "T", " ", "/", "b", " ", "H", "T", "T", "P", "/", "2", ".", "0">>,   \* PUT /b HTTP/2.0
      <<"D", "E", "L", "E", "T", "E", " ", "/", "a", " ", "H", "T", "T", "P", "/", "1", ".", "1">>,   \* DELETE /a HTTP/1.1
      <<"C", "O", "N", "N", "E", "C", "T", " ", "/", "a", " ", "H", "T", "T", "P", "/", "1", ".", "1">>,   \* CONNECT /a HTTP/1.1
      <<"O", "P", "T", "I", "O", "N", "S", " ", "/", "a", " ", "H", "T", "T", "P", "/", "1", ".", "1">>,   \* OPTIONS /a HTTP/1.1
      <<"T", "R", "A", "C", "E", " ", "/", "a", " ", "H", "T", "T", "P", "/", "1", ".", "1">>,   \* TRACE /a HTTP/1.1
      <<"P", "A", "T", "C", "H", " ", "/", "a", " ", "H", "T", "T", "P", "/", "1", ".", "0">>,   \* PATCH /a HTTP/1.0
      <<"g", "e", "t", " ", "/", "a", " ", "H", "T", "T", "P", "/", "1", ".", "1">>,   \* get /a HTTP/1.1
      <<"F", "O", "O", " ", " ", "/", "a", "TAB", "H", "T", "T", "P", "/", "1", ".", "1", " ", "x">> }   \* FOO  /a\tHTTP/1.1 x

\* lines that are only the first of an input: a request line with two words,
\* a line with no colon
FirstLines == RequestLines \cup { <<"G", "E", "T", " ", "H", "T", "T", "P", "/", "1", ".", "1">>, <<"j", "u", "n", "k">> }

\* lines of any place of a message: a request line, header lines (a value
\* with a colon, a value with whitespace on both sides, a value holding
\* "HTTP", a key seen before), the blank line, and a line ending in NUL
\* characters
OtherLines ==
    { <<"G", "E", "T", " ", "/", "g", "r", "e", "e", "t", "i", "n", "g", " ", "H", "T", "T", "P", "/", "1", ".", "1">>,   \* GET /greeting HTTP/1.1
      <<"H", "o", "s", "t", ":", " ", "l", "o", "c", "a", "l", "h", "o", "s", "t", ":", "3", "0", "0", "0">>,   \* Host: localhost:3000
      <<"A", "c", "c", "e", "p", "t", ":", " ", "TAB", "*", "/", "*", " ">>,   \* Accept: \t*/* 
      <<"U", "p", "g", "r", "a", "d", "e", ":", " ", "H", "T", "T", "P", "/", "2", ".", "0">>,   \* Upgrade: HTTP/2.0
      <<"H", "o", "s", "t", ":", "o", "t", "h", "e", "r">>,   \* Host:other
      <<>>,
      <<"a", "b", "NUL", "NUL">> }   \* ab\0\0

\* the lines after the first of an input: at most MaxRest
MaxRest == 3

RECURSIVE SeqsUpTo(_, _)
SeqsUpTo(S, n) ==
    IF n = 0 THEN {<<>>}
    ELSE LET shorter == SeqsUpTo(S, n - 1)
         IN  shorter \cup {Append(s, x) : s \in shorter, x \in S}

\* an input is empty, or a first line and up to MaxRest more
InputLines ==
    {<<>>} \cup { <<f>> \o r : f \in FirstLines \cup OtherLines,
                              r \in SeqsUpTo(OtherLines, MaxRest) }

\* the text of an input: its lines, sep between them
RECURSIVE Join(_, _)
Join(ls, sep) ==
    IF ls = <<>> THEN <<>>
    ELSE IF Len(ls) = 1 THEN ls[1]
    ELSE ls[1] \o sep \o Join(Tail(ls), sep)

----------------------------------------------------------------------------
(* impl From<String> for HttpRequest, one step per line of the loop.       *)

Init ==
    /\ \E ls \in InputLines, sep \in {CRLF, LFOnly} : raw = Join(ls, sep)
    /\ lines = str_lines(raw)
    /\ i = 1
    /\ parsed_method = "Uninitialized"
    /\ parsed_version = "V1_1"
    /\ parsed_resource = Path(<<>>)
    /\ parsed_headers = EmptyMap
    /\ parsed_msg_body = <<>>
    /\ in_body = FALSE
    /\ pc = "loop"
    /\ req = None
    /\ resp = None /\ inserted = <<>> /\ wire = None /\ sink = <<>>
    /\ response_string = None /\ call = None
    /\ write_result = None /\ ret = None /\ rpc = "unused"

\* the loop has a line to look at
AtLine == pc = "loop" /\ i <= Len(lines)

\* line.contains("HTTP"), not in the body: the request line
RequestLine ==
    /\ AtLine /\ ~in_body
    /\ Contains(lines[i], <<"H", "T", "T", "P">>)
    /\ LET r == process_req_line(lines[i])
       IN  IF r.panicked
           THEN /\ pc' = "panic"
                /\ UNCHANGED <<i, parsed_method, parsed_version, parsed_resource>>
           ELSE /\ parsed_method' = r.method
                /\ parsed_version' = r.version
                /\ parsed_resource' = r.resource
                /\ i' = i + 1
                /\ pc' = pc
    /\ UNCHANGED <<raw, lines, parsed_headers, parsed_msg_body, in_body, req>>
    /\ UNCHANGED respVars

\* line.contains(':'), not in the body: a header line
HeaderLine ==
    /\ AtLine /\ ~in_body
    /\ ~Contains(lines[i], <<"H", "T", "T", "P">>)
    /\ ContainsChar(lines[i], ":")
    /\ LET kv == process_header_line(lines[i])
       IN  parsed_headers' = MapInsert(parsed_headers, kv[1], kv[2])
    /\ i' = i + 1
    /\ UNCHANGED <<raw, lines, parsed_method, parsed_version, parsed_resource,
                   parsed_msg_body, in_body, pc, req>>
    /\ UNCHANGED respVars

\* line.is_empty(), not in the body: the next lines are the body
BlankLine ==
    /\ AtLine /\ ~in_body
    /\ ~Contains(lines[i], <<"H", "T", "T", "P">>)
    /\ ~ContainsChar(lines[i], ":")
    /\ lines[i] = <<>>
    /\ in_body' = TRUE
    /\ i' = i + 1
    /\ UNCHANGED <<raw, lines, parsed_method, parsed_version, parsed_resource,
                   parsed_headers, parsed_msg_body, pc, req>>
    /\ UNCHANGED respVars

\* none of the three, not in the body: the line is passed over
OtherLine ==
    /\ AtLine /\ ~in_body
    /\ ~Contains(lines[i], <<"H", "T", "T", "P">>)
    /\ ~ContainsChar(lines[i], ":")
    /\ lines[i] # <<>>
    /\ i' = i + 1
    /\ UNCHANGED <<raw, lines, parsed_method, parsed_version, parsed_resource,
                   parsed_headers, parsed_msg_body, in_body, pc, req>>
    /\ UNCHANGED respVars

\* in the body: parsed_msg_body.push_str(line)
BodyLine ==
    /\ AtLine /\ in_body
    /\ parsed_msg_body' = parsed_msg_body \o lines[i]
    /\ i' = i + 1
    /\ UNCHANGED <<raw, lines, parsed_method, parsed_version, parsed_resource,
                   parsed_headers, in_body, pc, req>>
    /\ UNCHANGED respVars

\* the HttpRequest the loop's locals make
HttpRequest ==
    [method   |-> parsed_method,
     version  |-> parsed_version,
     resource |-> parsed_resource,
     headers  |-> parsed_headers,
     msg_body |-> trim_end_matches(parsed_msg_body, "NUL")]

\* the lines are used up: the request is returned
Return ==
    /\ pc = "loop" /\ i > Len(lines)
    /\ req' = Some(HttpRequest)
    /\ pc' = "done"
    /\ UNCHANGED <<raw, lines, i, parsed_method, parsed_version, parsed_resource,
                   parsed_headers, parsed_msg_body, in_body>>
    /\ UNCHANGED respVars

Next ==
    \/ RequestLine
    \/ HeaderLine
    \/ BlankLine
    \/ OtherLine
    \/ BodyLine
    \/ Return

Spec == Init /\ [][Next]_vars

----------------------------------------------------------------------------
(* response.rs                                                             *)

\* the bytes of a character in UTF-8
Utf8Len(c) == IF c = "U+00E9" THEN 2 ELSE 1

\* a length in characters, not bytes
CharCount(s) == Len(s)

\* String::len: the length in bytes
RECURSIVE StrLen(_)
StrLen(s) == IF s = <<>> THEN 0 ELSE Utf8Len(Head(s)) + StrLen(Tail(s))

\* Display for usize: the decimal digits, no leading zero
Digit(d) == <<"0", "1", "2", "3", "4", "5", "6", "7", "8", "9">>[d + 1]

RECURSIVE ToDecimal(_)
ToDecimal(n) ==
    IF n < 10 THEN <<Digit(n)>> ELSE Append(ToDecimal(n \div 10), Digit(n % 10))

\* impl Default for HttpResponse
Default ==
    [version     |-> <<"H", "T", "T", "P", "/", "1", ".", "1">>,
     status_code |-> <<"2", "0", "0">>,
     status_text |-> <<"O", "K">>,
     headers     |-> None,
     body        |-> None]

\* the headers a constructor gives a response built with headers: None
DefaultHeaders ==
    Some(MapInsert(EmptyMap, <<"C", "o", "n", "t", "e", "n", "t", "-", "T", "y", "p", "e">>, <<"t", "e", "x", "t", "/", "p", "l", "a", "i", "n">>))

\* HttpResponse::new (deprecated)
new(status_code, hs, b) ==
    LET code == IF status_code # <<"2", "0", "0">> THEN status_code
                ELSE Default.status_code
    IN  [version     |-> Default.version,
         status_code |-> code,
         status_text |->
             CASE code = <<"2", "0", "0">> -> <<"O", "K">>
               [] code = <<"4", "0", "0">> -> <<"B", "a", "d", " ", "R", "e", "q", "u", "e", "s", "t">>
               [] code = <<"4", "0", "4">> -> <<"N", "o", "t", " ", "F", "o", "u", "n", "d">>
               [] code = <<"5", "0", "0">> -> <<"I", "n", "t", "e", "r", "n", "a", "l", " ", "S", "e", "r", "v", "e", "r", " ", "E", "r", "r", "o", "r">>
               [] OTHER -> <<>>,
         headers     |-> IF hs.tag = "Some" THEN hs ELSE DefaultHeaders,
         body        |-> b]

\* HttpResponse::new_from_status
new_from_status(hs, b, status_code, status_text) ==
    [version     |-> Default.version,
     status_code |-> IF status_code # <<"2", "0", "0">> THEN status_code
                     ELSE Default.status_code,
     status_text |-> status_text,
     headers     |-> IF hs.tag = "Some" THEN hs ELSE DefaultHeaders,
     body        |-> b]

\* the status constructors
_continue(hs, b) ==
    new_from_status(hs, b, <<"1", "0", "0">>,
                    <<"C", "o", "n", "t", "i", "n", "u", "e">>)

switching_protocol(hs, b) ==
    new_from_status(hs, b, <<"1", "0", "1">>,
                    <<"S", "w", "i", "t", "c", "h", "i", "n", "g", " ", "P", "r", "o", "t", "o", "c", "o", "l">>)

early_hints(hs, b) ==
    new_from_status(hs, b, <<"1", "0", "3">>,
                    <<"E", "a", "r", "l", "y", " ", "H", "i", "n", "t", "s">>)

ok(hs, b) ==
    new_from_status(hs, b, <<"2", "0", "0">>,
                    <<"O", "K">>)

created(hs, b) ==
    new_from_status(hs, b, <<"2", "0", "1">>,
                    <<"C", "r", "e", "a", "t", "e", "d">>)

accepted(hs, b) ==
    new_from_status(hs, b, <<"2", "0", "2">>,
                    <<"A", "c", "c", "e", "p", "t", "e", "d">>)

non_authoritative_information(hs, b) ==
    new_from_status(hs, b, <<"2", "0", "3">>,
                    <<"N", "o", "n", "-", "A", "u", "t", "h", "o", "r", "i", "t", "a", "t", "i", "v", "e", " ", "I", "n", "f", "o", "r", "m", "a", "t", "i", "o", "n">>)

no_content(hs, b) ==
    new_from_status(hs, b, <<"2", "0", "4">>,
                    <<"N", "o", " ", "C", "o", "n", "t", "e", "n", "t">>)

reset_content(hs, b) ==
    new_from_status(hs, b, <<"2", "0", "5">>,
                    <<"R", "e", "s", "e", "t", " ", "C", "o", "n", "t", "e", "n", "t">>)

partial_content(hs, b) ==
    new_from_status(hs, b, <<"2", "0", "6">>,
                    <<"P", "a", "r", "t", "i", "a", "l", " ", "C", "o", "n", "t", "e", "n", "t">>)

found(hs, b) ==
    new_from_status(hs, b, <<"3", "0", "2">>,
                    <<"F", "o", "u", "n", "d">>)

see_other(hs, b) ==
    new_from_status(hs, b, <<"3", "0", "3">>,
                    <<"S", "e", "e", " ", "O", "t", "h", "e", "r">>)

not_modified(hs, b) ==
    new_from_status(hs, b, <<"3", "0", "4">>,
                    <<"N", "o", "t", " ", "M", "o", "d", "i", "f", "i", "e", "d">>)

temporary_redirect(hs, b) ==
    new_from_status(hs, b, <<"3", "0", "7">>,
                    <<"T", "e", "m", "p", "o", "r", "a", "r", "y", " ", "R", "e", "d", "i", "r", "e", "c", "t">>)

permanent_redirect(hs, b) ==
    new_from_status(hs, b, <<"3", "0", "8">>,
                    <<"P", "e", "r", "m", "a", "n", "e", "n", "t", " ", "R", "e", "d", "i", "r", "e", "c", "t">>)

bad_request(hs, b) ==
    new_from_status(hs, b, <<"4", "0", "0">>,
                    <<"B", "a", "d", " ", "R", "e", "q", "u", "e", "s", "t">>)

unauthorized(hs, b) ==
    new_from_status(hs, b, <<"4", "0", "1">>,
                    <<"U", "n", "a", "u", "t", "h", "o", "r", "i", "z", "e", "d">>)

forbidden(hs, b) ==
    new_from_status(hs, b, <<"4", "0", "3">>,
                    <<"F", "o", "r", "b", "i", "d", "d", "e", "n">>)

not_found(hs, b) ==
    new_from_status(hs, b, <<"4", "0", "4">>,
                    <<"N", "o", "t", " ", "F", "o", "u", "n", "d">>)

method_not_allowed(hs, b) ==
    new_from_status(hs, b, <<"4", "0", "5">>,
                    <<"M", "e", "t", "h", "o", "d", " ", "N", "o", "t", " ", "A", "l", "l", "o", "w", "e", "d">>)

request_timeout(hs, b) ==
    new_from_status(hs, b, <<"4", "0", "8">>,
                    <<"R", "e", "q", "u", "e", "s", "t", " ", "T", "i", "m", "e", "o", "u", "t">>)

gone(hs, b) ==
    new_from_status(hs, b, <<"4", "1", "0">>,
                    <<"G", "o", "n", "e">>)

im_a_teapot(hs, b) ==
    new_from_status(hs, b, <<"4", "1", "8">>,
                    <<"I", "'", "m", " ", "a", " ", "t", "e", "a", "p", "o", "t">>)

internal_server_error(hs, b) ==
    new_from_status(hs, b, <<"5", "0", "0">>,
                    <<"I", "n", "t", "e", "r", "n", "a", "l", " ", "S", "e", "r", "v", "e", "r", " ", "E", "r", "r", "o", "r">>)

StatusConstructors ==
    { "_continue",
      "switching_protocol",
      "early_hints",
      "ok",
      "created",
      "accepted",
      "non_authoritative_information",
      "no_content",
      "reset_content",
      "partial_content",
      "found",
      "see_other",
      "not_modified",
      "temporary_redirect",
      "permanent_redirect",
      "bad_request",
      "unauthorized",
      "forbidden",
      "not_found",
      "method_not_allowed",
      "request_timeout",
      "gone",
      "im_a_teapot",
      "internal_server_error" }

\* a call of the status constructor of that name
Construct(name, hs, b) ==
    CASE name = "_continue" -> _continue(hs, b)
      [] name = "switching_protocol" -> switching_protocol(hs, b)
      [] name = "early_hints" -> early_hints(hs, b)
      [] name = "ok" -> ok(hs, b)
      [] name = "created" -> created(hs, b)
      [] name = "accepted" -> accepted(hs, b)
      [] name = "non_authoritative_information" -> non_authoritative_information(hs, b)
      [] name = "no_content" -> no_content(hs, b)
      [] name = "reset_content" -> reset_content(hs, b)
      [] name = "partial_content" -> partial_content(hs, b)
      [] name = "found" -> found(hs, b)
      [] name = "see_other" -> see_other(hs, b)
      [] name = "not_modified" -> not_modified(hs, b)
      [] name = "temporary_redirect" -> temporary_redirect(hs, b)
      [] name = "permanent_redirect" -> permanent_redirect(hs, b)
      [] name = "bad_request" -> bad_request(hs, b)
      [] name = "unauthorized" -> unauthorized(hs, b)
      [] name = "forbidden" -> forbidden(hs, b)
      [] name = "not_found" -> not_found(hs, b)
      [] name = "method_not_allowed" -> method_not_allowed(hs, b)
      [] name = "request_timeout" -> request_timeout(hs, b)
      [] name = "gone" -> gone(hs, b)
      [] name = "im_a_teapot" -> im_a_teapot(hs, b)
      [] name = "internal_server_error" -> internal_server_error(hs, b)

\* HttpResponse::body
body(self) == IF self.body.tag = "Some" THEN self.body.val ELSE <<>>

\* the orders in which the iterator of a HashMap may give its keys: any
IterOrders(map) ==
    { o \in [1..Cardinality(DOMAIN map) -> DOMAIN map] :
          \A x, y \in DOMAIN o : x # y => o[x] # o[y] }

\* HttpResponse::headers, the iterator giving the keys in order o; the unwrap
\* of headers: None panics
RECURSIVE HeaderString(_, _)
HeaderString(map, o) ==
    IF o = <<>> THEN <<>>
    ELSE LET n == Len(o)
         IN  HeaderString(map, SubSeq(o, 1, n - 1))
                 \o o[n] \o <<":">> \o map[o[n]] \o <<"CR", "LF">>

headers(self, o) ==
    IF self.headers.tag = "None" THEN [panicked |-> TRUE]
    ELSE [panicked |-> FALSE, val |-> HeaderString(self.headers.val, o)]

\* the iteration orders of the headers of a response (one, of no key, when
\* there are none to iterate)
OrdersOf(self) ==
    IF self.headers.tag = "None" THEN {<<>>} ELSE IterOrders(self.headers.val)

\* impl From<HttpResponse> for String
StringFrom(res, o) ==
    LET h == headers(res, o)
    IN  IF h.panicked THEN [panicked |-> TRUE]
        ELSE [panicked |-> FALSE,
              val |-> res.version \o <<" ">> \o res.status_code \o <<" ">>
                      \o res.status_text \o <<"CR", "LF">>
                      \o h.val
                      \o <<"C", "o", "n", "t", "e", "n", "t", "-", "L", "e", "n", "g", "t", "h", ":", " ">>
                      \o ToDecimal(StrLen(IF res.body.tag = "Some"
                                          THEN res.body.val ELSE <<>>))
                      \o <<"CR", "LF", "CR", "LF">>
                      \o body(res)]

\* HttpResponse::send_response on a sink that takes the first n characters of
\* the text and then fails (failed), or takes it all: what the sink holds, what
\* write! gave, and what send_response returns
send_response(self, o, n, failed) ==
    LET rendered == StringFrom(self, o)
    IN  IF rendered.panicked THEN [panicked |-> TRUE]
        ELSE [panicked |-> FALSE,
              response_string |-> rendered.val,
              sink     |-> IF failed THEN SubSeq(rendered.val, 1, n)
                           ELSE rendered.val,
              write    |-> IF failed THEN "Err" ELSE "Ok",
              ret      |-> "Ok"]

----------------------------------------------------------------------------
(* Properties of the request parser, under Spec.                           *)

\* the call has ended: it returned, or it panicked
Ended == pc \in {"done", "panic"}

\* the place of the first blank line of the input, Len + 1 when it has none
FirstBlank(ls) ==
    IF \E k \in 1..Len(ls) : ls[k] = <<>>
    THEN CHOOSE k \in 1..Len(ls) : ls[k] = <<>> /\ \A j \in 1..(k - 1) : ls[j] # <<>>
    ELSE Len(ls) + 1

\* the place of the first colon of a line that has one
FirstColon(s) ==
    CHOOSE k \in 1..Len(s) : s[k] = ":" /\ \A j \in 1..(k - 1) : s[j] # ":"

\* the text of a line before its first colon, and all of it after
BeforeColon(s) == SubSeq(s, 1, FirstColon(s) - 1)
AfterColon(s) == SubSeq(s, FirstColon(s) + 1, Len(s))

\* the line the loop looked at last, while still before the body
LastLine == lines[i - 1]
PastLineBeforeBody == pc \in {"loop", "done"} /\ ~in_body /\ i > 1

\* C1: an input with a line before the body that contains "HTTP" and has
\* fewer than three words makes the parse end by returning the error
\* MalformedRequestLine; it does not panic.
C1_MalformedRequestLineIsReturned ==
    (/\ Ended
     /\ \E k \in 1..(FirstBlank(lines) - 1) :
            /\ Contains(lines[k], <<"H", "T", "T", "P">>)
            /\ Len(split_whitespace(lines[k])) < 3)
    => (pc = "done" /\ req = [tag |-> "Err", val |-> "MalformedRequestLine"])

\* C2: a header line is stored under the text before its first colon, with
\* all the text after that colon, less its leading whitespace, as the value:
\* later colons and trailing whitespace stay in the value.
C2_HeaderSplitAtFirstColon ==
    (/\ PastLineBeforeBody
     /\ ~Contains(LastLine, <<"H", "T", "T", "P">>)
     /\ ContainsChar(LastLine, ":"))
    => (/\ BeforeColon(LastLine) \in DOMAIN parsed_headers
        /\ parsed_headers[BeforeColon(LastLine)] = trim_start(AfterColon(LastLine)))

\* the variant the claim gives each method token
ClaimedMethod(s) ==
    CASE s = <<"G", "E", "T">>     -> "Get"
      [] s = <<"P", "O", "S", "T">>    -> "Post"
      [] s = <<"H", "E", "A", "D">>    -> "Head"
      [] s = <<"P", "U", "T">>     -> "Put"
      [] s = <<"D", "E", "L", "E", "T", "E">>  -> "Delete"
      [] s = <<"C", "O", "N", "N", "E", "C", "T">> -> "Connect"
      [] s = <<"O", "P", "T", "I", "O", "N", "S">> -> "Options"
      [] s = <<"T", "R", "A", "C", "E">>   -> "Trace"
      [] s = <<"P", "A", "T", "C", "H">>   -> "Patch"
      [] OTHER -> "Uninitialized"

\* C3: each of the nine method tokens is classified as its own variant and
\* any other token as the sentinel, so the method of a request line of three
\* words or more is the variant of its first word.
C3_MethodOfEveryToken ==
    (/\ PastLineBeforeBody
     /\ Contains(LastLine, <<"H", "T", "T", "P">>))
    => parsed_method = ClaimedMethod(split_whitespace(LastLine)[1])

\* a line of the header block: it has a colon
IsHeaderShape(s) == ContainsChar(s, ":")

\* the input is a request line of three words, then n header lines of
\* different keys, then a blank line (and a body, or none)
WellFormedHead(ls) ==
    LET b == FirstBlank(ls)
    IN  /\ b >= 2 /\ b <= Len(ls)
        /\ Len(split_whitespace(ls[1])) = 3
        /\ ~ContainsChar(ls[1], ":")
        /\ Contains(split_whitespace(ls[1])[3], <<"H", "T", "T", "P">>)
        /\ \A k \in 2..(b - 1) : IsHeaderShape(ls[k])
        /\ \A k, j \in 2..(b - 1) :
               k # j => BeforeColon(ls[k]) # BeforeColon(ls[j])

\* C7: of a request line, n header lines of different keys and a blank line,
\* the parse returns a request with n headers, keyed by the text before the
\* first colon of each header line, whatever the values hold ("HTTP" too),
\* and with the method, version and resource of the request line.
C7_OneEntryPerHeaderLine ==
    (Ended /\ WellFormedHead(lines))
    => LET b == FirstBlank(lines)
           w == split_whitespace(lines[1])
       IN  /\ pc = "done"
           /\ DOMAIN req.val.headers = { BeforeColon(lines[k]) : k \in 2..(b - 1) }
           /\ Cardinality(DOMAIN req.val.headers) = b - 2
           /\ req.val.method = MethodFrom(w[1])
           /\ req.val.resource = Path(w[2])
           /\ req.val.version = VersionFrom(w[3])

\* the lines of ls from place a on, one after the other with nothing between
RECURSIVE ConcatFrom(_, _)
ConcatFrom(ls, a) ==
    IF a > Len(ls) THEN <<>> ELSE ls[a] \o ConcatFrom(ls, a + 1)

\* s with the NUL characters at its end left out
WithoutTrailingNul(s) ==
    LET keep == { k \in 0..Len(s) : \A j \in (k + 1)..Len(s) : s[j] = "NUL" }
        n    == CHOOSE k \in keep : \A m \in keep : k <= m
    IN  SubSeq(s, 1, n)

\* the body read so far is the lines after the first blank line, up to the
\* line the loop is at
BodySoFar ==
    parsed_msg_body =
        ConcatFrom(SubSeq(lines, 1, i - 1), FirstBlank(lines) + 1)

\* C10: the first blank line puts the loop in the body, for good; in the
\* body no line changes method, version, resource or headers; the body is the
\* lines after the first blank line, in order, nothing between them, and the
\* body returned is that less its trailing NUL characters.
C10_BodyModeIsOneWay ==
    /\ [](in_body <=> FirstBlank(lines) < i)
    /\ [][in_body => in_body']_vars
    /\ [][in_body => UNCHANGED <<parsed_method, parsed_version, parsed_resource,
                                 parsed_headers>>]_vars
    /\ [](pc \in {"loop", "done"} => BodySoFar)
    /\ [](pc = "done" =>
            /\ req.val.method = parsed_method
            /\ req.val.headers = parsed_headers
            /\ req.val.msg_body =
                   WithoutTrailingNul(ConcatFrom(lines, FirstBlank(lines) + 1)))

\* a request returned whose body is two lines or more, one a line that
\* before the body is a request line and one that ends in NUL characters
C10_Witness ==
    /\ pc = "done"
    /\ Len(lines) >= FirstBlank(lines) + 2
    /\ \E k \in (FirstBlank(lines) + 1)..Len(lines) : Contains(lines[k], <<"H", "T", "T", "P">>)
    /\ lines[Len(lines)] # <<>> /\ lines[Len(lines)][Len(lines[Len(lines)])] = "NUL"
    /\ req.val.msg_body # <<>>

----------------------------------------------------------------------------
(* The caller of response.rs.                                              *)

\* the header entries a caller inserts, in a map of its own: at most
\* MaxHeaders of them, of different keys
MaxHeaders == 2

HeaderEntries ==
    { <<<<"C", "o", "n", "t", "e", "n", "t", "-", "T", "y", "p", "e">>, <<"t", "e", "x", "t", "/", "h", "t", "m", "l">>>>,
      <<<<"S", "e", "r", "v", "e", "r">>, <<"r", "u", "s", "t">>>>,
      <<<<"X", "-", "I", "d">>, <<"a", ":", "b", " ">>>> }

Insertions ==
    { s \in SeqsUpTo(HeaderEntries, MaxHeaders) :
          \A x, y \in DOMAIN s : x # y => s[x][1] # s[y][1] }

\* the HashMap the insertions make
RECURSIVE MapOf(_)
MapOf(s) ==
    IF s = <<>> THEN EmptyMap
    ELSE LET n == Len(s)
         IN  MapInsert(MapOf(SubSeq(s, 1, n - 1)), s[n][1], s[n][2])

\* the keys of the insertions, in their order
KeysOf(s) == [k \in DOMAIN s |-> s[k][1]]

\* the bodies a caller gives: none, empty, one digit of length, two digits,
\* and one whose bytes outnumber its characters
Bodies ==
    { None,
      Some(<<>>),
      Some(<<"m", "i", "s", "s", "i", "n", "g">>),
      Some(<<"t", "e", "s", "t", "b", "o", "d", "y", "1", "2", "3">>),
      Some(<<"c", "a", "f", "U+00E9">>) }

\* the status codes a caller gives HttpResponse::new
NewCodes == { <<"2", "0", "0">>, <<"4", "0", "0">>, <<"4", "0", "4">>, <<"5", "0", "0">>, <<"3", "0", "2">> }

\* the status lines a caller gives new_from_status itself
StatusLines ==
    { <<<<"2", "0", "0">>, <<"O", "K">>>>, <<<<"2", "9", "9">>, <<"F", "i", "n", "e">>>> }

\* the sink fails after taking at most MaxTaken characters, or not at all
MaxTaken == 1

RInit ==
    /\ resp = None /\ inserted = <<>> /\ wire = None /\ sink = <<>>
    /\ response_string = None /\ call = None
    /\ write_result = None /\ ret = None /\ rpc = "ready"
    /\ raw = <<>> /\ lines = <<>> /\ i = 1
    /\ parsed_method = "Uninitialized" /\ parsed_version = "V1_1"
    /\ parsed_resource = Path(<<>>) /\ parsed_headers = EmptyMap
    /\ parsed_msg_body = <<>> /\ in_body = FALSE /\ pc = "unused" /\ req = None

\* the order of insertion of the headers of a response a constructor made
InsertedBy(hs, s) == IF hs.tag = "Some" THEN KeysOf(s) ELSE <<<<"C", "o", "n", "t", "e", "n", "t", "-", "T", "y", "p", "e">>>>

\* the headers argument of a call: None, or the map of the insertions s
HeadersArg(given, s) == IF given THEN Some(MapOf(s)) ELSE None

\* the caller has made no response yet
Fresh == rpc = "ready" /\ resp = None

\* the caller holds a response and has made nothing of it yet
Unused == rpc = "ready" /\ resp # None /\ wire = None /\ ret = None

\* what a caller assigns the field headers: None, or a map of one insertion
\* at most
Assigned == { s \in Insertions : Len(s) <= 1 }

\* HttpResponse::default()
CallDefault ==
    /\ Fresh
    /\ resp' = Some(Default)
    /\ inserted' = <<>>
    /\ call' = None
    /\ UNCHANGED <<wire, response_string, sink, write_result, ret, rpc, parseVars>>

\* HttpResponse::new(code, headers, body)
CallNew ==
    /\ Fresh
    /\ \E code \in NewCodes, s \in Insertions, given \in BOOLEAN, b \in Bodies :
        /\ resp' = Some(new(code, HeadersArg(given, s), b))
        /\ inserted' = InsertedBy(HeadersArg(given, s), s)
    /\ call' = None
    /\ UNCHANGED <<wire, response_string, sink, write_result, ret, rpc, parseVars>>

\* HttpResponse::new_from_status(headers, body, code, text)
CallNewFromStatus ==
    /\ Fresh
    /\ \E st \in StatusLines, s \in Insertions, given \in BOOLEAN, b \in Bodies :
        /\ resp' = Some(new_from_status(HeadersArg(given, s), b, st[1], st[2]))
        /\ inserted' = InsertedBy(HeadersArg(given, s), s)
    /\ call' = None
    /\ UNCHANGED <<wire, response_string, sink, write_result, ret, rpc, parseVars>>

\* HttpResponse::ok(headers, body) and the other status constructors
CallStatusConstructor ==
    /\ Fresh
    /\ \E name \in StatusConstructors, s \in Insertions, given \in BOOLEAN,
          b \in Bodies :
        /\ resp' = Some(Construct(name, HeadersArg(given, s), b))
        /\ inserted' = InsertedBy(HeadersArg(given, s), s)
        /\ call' = Some([name |-> name, headers |-> HeadersArg(given, s),
                         body |-> b])
    /\ UNCHANGED <<wire, response_string, sink, write_result, ret, rpc, parseVars>>

\* the caller assigns the public field headers of the response it holds
SetHeaders ==
    /\ Unused
    /\ \E s \in Assigned, given \in BOOLEAN :
        /\ resp' = Some([resp.val EXCEPT !.headers = HeadersArg(given, s)])
        /\ inserted' = IF given THEN KeysOf(s) ELSE <<>>
    /\ call' = None
    /\ UNCHANGED <<wire, response_string, sink, write_result, ret, rpc, parseVars>>

\* String::from(response), which takes the response from the caller
IntoString ==
    /\ Unused
    /\ \E o \in OrdersOf(resp.val) :
        LET r == StringFrom(resp.val, o)
        IN  IF r.panicked
            THEN rpc' = "panic" /\ wire' = wire
            ELSE rpc' = rpc /\ wire' = Some(r.val)
    /\ UNCHANGED <<resp, inserted, response_string, sink, write_result, ret, call,
                   parseVars>>

\* response.send_response(&mut sink), the sink empty before
SendResponse ==
    /\ Unused
    /\ \E o \in OrdersOf(resp.val), n \in 0..MaxTaken, failed \in BOOLEAN :
        LET r == send_response(resp.val, o, n, failed)
        IN  IF r.panicked
            THEN rpc' = "panic"
                 /\ UNCHANGED <<response_string, sink, write_result, ret>>
            ELSE /\ rpc' = rpc
                 /\ response_string' = Some(r.response_string)
                 /\ sink' = r.sink
                 /\ write_result' = Some(r.write)
                 /\ ret' = Some(r.ret)
    /\ UNCHANGED <<resp, inserted, wire, call, parseVars>>

RNext ==
    \/ CallDefault
    \/ CallNew
    \/ CallNewFromStatus
    \/ CallStatusConstructor
    \/ SetHeaders
    \/ IntoString
    \/ SendResponse

SpecResp == RInit /\ [][RNext]_vars

----------------------------------------------------------------------------
(* Properties of the response model and serializer, under SpecResp.        *)

\* C4: send_response returns an error whenever the write to the sink failed,
\* and returns success only when the sink took the whole rendered text.
C4_SendSurfacesSinkFailure ==
    ret # None =>
        /\ (write_result = Some("Err") => ret = Some("Err"))
        /\ (ret = Some("Ok") => sink = response_string.val)

\* C5: the wire text of a response has its header lines in the order the
\* headers were inserted, so equal responses give equal texts.
C5_HeadersInInsertionOrder ==
    wire # None => wire = Some(StringFrom(resp.val, inserted).val)

\* C6: no conversion of a response the public interface gives panics, the
\* headers absent or not, the body absent or not.
C6_SerializationNeverPanics == rpc # "panic"

\* the number of bytes of a text: one for each character and one more for
\* each character of two bytes
ByteCount(s) == Len(s) + Cardinality({ k \in 1..Len(s) : s[k] = "U+00E9" })

\* the number a numeral stands for
DigitValue(c) == CHOOSE d \in 0..9 : Digit(d) = c

RECURSIVE NumeralValue(_)
NumeralValue(d) ==
    IF d = <<>> THEN 0
    ELSE 10 * NumeralValue(SubSeq(d, 1, Len(d) - 1)) + DigitValue(d[Len(d)])

\* the decimal numerals of one or two digits, no leading zero
DigitChars == { Digit(d) : d \in 0..9 }
Numerals ==
    { <<a>> : a \in DigitChars }
        \cup { <<a, b>> : a \in DigitChars \ {"0"}, b \in DigitChars }

\* the numeral of a number below 100
NumeralOf(n) == CHOOSE d \in Numerals : NumeralValue(d) = n

\* the header lines "key:value" CRLF of the keys ks of a map, one after the
\* other
RECURSIVE LinesOfKeys(_, _)
LinesOfKeys(map, ks) ==
    IF ks = <<>> THEN <<>>
    ELSE Head(ks) \o <<":">> \o map[Head(ks)] \o CRLF \o LinesOfKeys(map, Tail(ks))

\* w is the wire text of the response r: the status line, a line for each
\* header in some order, the Content-Length line with the bytes of the body
\* in decimal, the empty line, the body
IsWireTextOf(w, r) ==
    LET b == IF r.body = None THEN <<>> ELSE r.body.val
        d == NumeralOf(ByteCount(b))
    IN  \E ks \in IterOrders(r.headers.val) :
          /\ w = r.version \o <<" ">> \o r.status_code \o <<" ">> \o r.status_text
                 \o CRLF
                 \o LinesOfKeys(r.headers.val, ks)
                 \o <<"C", "o", "n", "t", "e", "n", "t", "-", "L", "e", "n", "g", "t", "h", ":", " ">> \o d \o CRLF
                 \o CRLF
                 \o b

\* C8: the wire text of a response is its status line, one line "key:value"
\* for each header, the line "Content-Length: " with the number of bytes of
\* the body, an empty line, and the body; an absent body is the empty body,
\* of length 0.
C8_WireFormat ==
    /\ wire # None => IsWireTextOf(wire.val, resp.val)
    /\ response_string # None => IsWireTextOf(response_string.val, resp.val)

\* a text made of a response of two headers whose body has more bytes than
\* characters
C8_Witness ==
    /\ wire # None
    /\ Cardinality(DOMAIN resp.val.headers.val) = 2
    /\ resp.val.body # None
    /\ ByteCount(resp.val.body.val) > Len(resp.val.body.val)

\* the status code each status constructor is of
CodeOf(name) ==
    CASE name = "_continue" -> <<"1", "0", "0">>
      [] name = "switching_protocol" -> <<"1", "0", "1">>
      [] name = "early_hints" -> <<"1", "0", "3">>
      [] name = "ok" -> <<"2", "0", "0">>
      [] name = "created" -> <<"2", "0", "1">>
      [] name = "accepted" -> <<"2", "0", "2">>
      [] name = "non_authoritative_information" -> <<"2", "0", "3">>
      [] name = "no_content" -> <<"2", "0", "4">>
      [] name = "reset_content" -> <<"2", "0", "5">>
      [] name = "partial_content" -> <<"2", "0", "6">>
      [] name = "found" -> <<"3", "0", "2">>
      [] name = "see_other" -> <<"3", "0", "3">>
      [] name = "not_modified" -> <<"3", "0", "4">>
      [] name = "temporary_redirect" -> <<"3", "0", "7">>
      [] name = "permanent_redirect" -> <<"3", "0", "8">>
      [] name = "bad_request" -> <<"4", "0", "0">>
      [] name = "unauthorized" -> <<"4", "0", "1">>
      [] name = "forbidden" -> <<"4", "0", "3">>
      [] name = "not_found" -> <<"4", "0", "4">>
      [] name = "method_not_allowed" -> <<"4", "0", "5">>
      [] name = "request_timeout" -> <<"4", "0", "8">>
      [] name = "gone" -> <<"4", "1", "0">>
      [] name = "im_a_teapot" -> <<"4", "1", "8">>
      [] name = "internal_server_error" -> <<"5", "0", "0">>

\* the reason phrase of each status code in the registry of status codes
\* (RFC 9110; RFC 8297 for 103, RFC 2324 for 418)
CanonicalReason(code) ==
    CASE code = <<"1", "0", "0">> ->
           <<"C", "o", "n", "t", "i", "n", "u", "e">>   \* Continue
      [] code = <<"1", "0", "1">> ->
           <<"S", "w", "i", "t", "c", "h", "i", "n", "g", " ", "P", "r", "o", "t", "o", "c", "o", "l", "s">>   \* Switching Protocols
      [] code = <<"1", "0", "3">> ->
           <<"E", "a", "r", "l", "y", " ", "H", "i", "n", "t", "s">>   \* Early Hints
      [] code = <<"2", "0", "0">> ->
           <<"O", "K">>
      [] code = <<"2", "0", "1">> ->
           <<"C", "r", "e", "a", "t", "e", "d">>   \* Created
      [] code = <<"2", "0", "2">> ->
           <<"A", "c", "c", "e", "p", "t", "e", "d">>   \* Accepted
      [] code = <<"2", "0", "3">> ->
           <<"N", "o", "n", "-", "A", "u", "t", "h", "o", "r", "i", "t", "a", "t", "i", "v", "e", " ", "I", "n", "f", "o", "r", "m", "a", "t", "i", "o", "n">>   \* Non-Authoritative Information
      [] code = <<"2", "0", "4">> ->
           <<"N", "o", " ", "C", "o", "n", "t", "e", "n", "t">>   \* No Content
      [] code = <<"2", "0", "5">> ->
           <<"R", "e", "s", "e", "t", " ", "C", "o", "n", "t", "e", "n", "t">>   \* Reset Content
      [] code = <<"2", "0", "6">> ->
           <<"P", "a", "r", "t", "i", "a", "l", " ", "C", "o", "n", "t", "e", "n", "t">>   \* Partial Content
      [] code = <<"3", "0", "2">> ->
           <<"F", "o", "u", "n", "d">>   \* Found
      [] code = <<"3", "0", "3">> ->
           <<"S", "e", "e", " ", "O", "t", "h", "e", "r">>   \* See Other
      [] code = <<"3", "0", "4">> ->
           <<"N", "o", "t", " ", "M", "o", "d", "i", "f", "i", "e", "d">>   \* Not Modified
      [] code = <<"3", "0", "7">> ->
           <<"T", "e", "m", "p", "o", "r", "a", "r", "y", " ", "R", "e", "d", "i", "r", "e", "c", "t">>   \* Temporary Redirect
      [] code = <<"3", "0", "8">> ->
           <<"P", "e", "r", "m", "a", "n", "e", "n", "t", " ", "R", "e", "d", "i", "r", "e", "c", "t">>   \* Permanent Redirect
      [] code = <<"4", "0", "0">> ->
           <<"B", "a", "d", " ", "R", "e", "q", "u", "e", "s", "t">>   \* Bad Request
      [] code = <<"4", "0", "1">> ->
           <<"U", "n", "a", "u", "t", "h", "o", "r", "i", "z", "e", "d">>   \* Unauthorized
      [] code = <<"4", "0", "3">> ->
           <<"F", "o", "r", "b", "i", "d", "d", "e", "n">>   \* Forbidden
      [] code = <<"4", "0", "4">> ->
           <<"N", "o", "t", " ", "F", "o", "u", "n", "d">>   \* Not Found
      [] code = <<"4", "0", "5">> ->
           <<"M", "e", "t", "h", "o", "d", " ", "N", "o", "t", " ", "A", "l", "l", "o", "w", "e", "d">>   \* Method Not Allowed
      [] code = <<"4", "0", "8">> ->
           <<"R", "e", "q", "u", "e", "s", "t", " ", "T", "i", "m", "e", "o", "u", "t">>   \* Request Timeout
      [] code = <<"4", "1", "0">> ->
           <<"G", "o", "n", "e">>   \* Gone
      [] code = <<"4", "1", "8">> ->
           <<"I", "'", "m", " ", "a", " ", "t", "e", "a", "p", "o", "t">>   \* I'm a teapot
      [] code = <<"5", "0", "0">> ->
           <<"I", "n", "t", "e", "r", "n", "a", "l", " ", "S", "e", "r", "v", "e", "r", " ", "E", "r", "r", "o", "r">>   \* Internal Server Error

\* C9: a status constructor returns a response of version HTTP/1.1, of its
\* code and the canonical reason phrase of that code, with the one header
\* Content-Type -> text/plain when it was given no headers and the headers it
\* was given otherwise, and with the body it was given.
C9_ConstructorMatchesCatalog ==
    call # None =>
        resp.val =
            [version     |-> <<"H", "T", "T", "P", "/", "1", ".", "1">>,
             status_code |-> CodeOf(call.val.name),
             status_text |-> CanonicalReason(CodeOf(call.val.name)),
             headers     |-> IF call.val.headers = None
                             THEN Some(MapOf(<< <<<<"C", "o", "n", "t", "e", "n", "t", "-", "T", "y", "p", "e">>,
                                                  <<"t", "e", "x", "t", "/", "p", "l", "a", "i", "n">>>> >>))
                             ELSE call.val.headers,
             body        |-> call.val.body]

====
